---- MODULE Spec2Model ----
(***************************************************************************)
(* BookSphere multi-agent core: the agent message contract (AgentMessage,  *)
(* BaseAgent) and the AgentCommunicationHub of src/agents/base_agent.py.   *)
(*                                                                         *)
(* Agents are Python objects; the hub's registry maps an identity to one   *)
(* of them.  Several objects may carry the same identity (re-registration),*)
(* so the model separates agent objects (Instances) from identities        *)
(* (AgentIds).  A mailbox belongs to an object, not to an identity.        *)
(***************************************************************************)
EXTENDS Integers, Sequences, FiniteSets, TLC

\* Messages the callers of the hub may create (send_message, broadcast_message).
MaxMsgs == 2

\* Messages the callers of a stand-alone agent may create.
MaxAgentMsgs == 3

\* Messages the concurrent routers may create.
MaxConcMsgs == 2

\* Messages waiting in the mailbox of an agent that is about to be drained.
MaxQueued == 3

\* Book records in the books_data of a request to the popularity agent.
MaxBooks == 2

\* ---------------------------------------------------------------- universe
AgentIds == {"classifier_001", "popularity_001", "suggestion_001"}

\* Agent objects: one classifier, one popularity analyzer and two suggestion
\* agents constructed with the same agent_id (the default ids of the classes).
Instances == {"cls", "pop", "sug", "sug2"}

\* BaseAgent.__init__: self.agent_id = agent_id
agent_id(o) ==
    CASE o = "cls" -> "classifier_001"
      [] o = "pop" -> "popularity_001"
      [] OTHER     -> "suggestion_001"

\* Message kinds the callers send.  "get_recommendations" is a kind only the
\* suggestion agent dispatches on, "analyze_popularity" one only the
\* popularity agent dispatches on; the classifier knows neither.
RequestTypes == {"get_recommendations", "analyze_popularity"}

\* The agent objects whose send_message the callers use to build requests
\* (main_api builds every request with suggestion_agent.send_message).
Callers == {"sug"}

\* The identities the callers address requests to; the classifier is reached
\* by broadcasts only.
Receivers == {"suggestion_001", "popularity_001"}

\* The content dict of a message whose payload the core does not read.
OpaqueContent == [query |-> ""]

\* @dataclass AgentMessage (the timestamp is opaque to the core; the content
\* is opaque unless the message is built with one)
AgentMessage(id, sender, receiver, type, prio) ==
    [message_id |-> id, sender_id |-> sender, receiver_id |-> receiver,
     message_type |-> type, priority |-> prio, content |-> OpaqueContent]

\* Python's None where an Optional[AgentMessage] is expected.
None == AgentMessage(0, "", "", "", 0)

VARIABLES
    agents,           \* hub.agents: dict, kept as the sequence of its items
    message_history,  \* hub.message_history
    message_queue,    \* message_queue[o]: mailbox of agent object o
    is_active,        \* is_active[o]
    next_uuid,        \* the next fresh message_id (uuid4 never repeats)
    in_flight,        \* messages built by send_message, held by the caller
    response,         \* what the process_queue call that led here returned
    processed,        \* processed[o]: the process_message calls made on o, in order
    received,         \* received[o]: the receive_message calls made on o, in order
    dropped,          \* the messages route_message found no receiver for
    last_op,          \* the operation whose call led to this state
    registered_last,  \* registered_last[id]: the object of the latest
                      \* register_agent call for identity id ("" if none)
    workers,          \* workers[w]: where thread w stands in route_message or
                      \* process_queue, and the message it holds
    vector_db,        \* SuggestionAgent.vector_db: whether it is set, whether
                      \* similarity_search raises, and the documents it ranks
    popularity_agent, \* whether SuggestionAgent.popularity_agent is set
    request,          \* the request message the suggestion agent is handed
    reply,            \* what process_message returned for it
    books,            \* the book records handed to the scoring functions
    scores            \* what the scoring functions returned for them

vars == <<agents, message_history, message_queue, is_active, next_uuid,
          in_flight, response, processed, received, dropped, last_op,
          registered_last, workers, vector_db, popularity_agent, request,
          reply, books, scores>>

\* The state of the recommendation pipeline and of the scoring functions;
\* no operation of BaseAgent or of the hub touches it.
pipeline_vars == <<vector_db, popularity_agent, request, reply, books, scores>>

\* Threads that call route_message and threads that call process_queue.
Routers == {"r1", "r2"}
Drainers == {"d1", "d2"}

Idle == [at |-> "idle", message |-> None]

\* ------------------------------------------------------------ dict helpers
\* `key in self.agents`
Registered(reg, id) == \E i \in 1..Len(reg) : reg[i][1] = id

\* `self.agents[key]`
Lookup(reg, id) == reg[CHOOSE i \in 1..Len(reg) : reg[i][1] = id][2]

\* DictSet as self.agents.setdefault(key, value): an existing binding stays.
DictSet_KeepFirst(reg, id, o) ==
    IF \E i \in 1..Len(reg) : reg[i][1] = id THEN reg ELSE Append(reg, <<id, o>>)

\* `self.agents[key] = value`: a new key goes last, an existing key keeps its place
DictSet(reg, id, o) ==
    IF Registered(reg, id)
    THEN [i \in 1..Len(reg) |-> IF reg[i][1] = id THEN <<id, o>> ELSE reg[i]]
    ELSE Append(reg, <<id, o>>)

\* ------------------------------------------------------------------- Init
\* No request handed to an agent yet, and nothing returned yet.
NoRequest == [message_type |-> "none"]
NoReply == [message_type |-> "none"]

\* SuggestionAgent.__init__: self.vector_db = None
NoVectorDb == [status |-> "unset", docs |-> <<>>]

\* The agents and the hub right after construction.
InitAgents ==
    /\ agents = <<>>
    /\ message_history = <<>>
    /\ message_queue = [o \in Instances |-> <<>>]
    /\ is_active = [o \in Instances |-> TRUE]
    /\ next_uuid = 1
    /\ in_flight = {}
    /\ response = None
    /\ processed = [o \in Instances |-> <<>>]
    /\ received = [o \in Instances |-> <<>>]
    /\ dropped = {}
    /\ last_op = "init"
    /\ registered_last = [id \in AgentIds |-> ""]
    /\ workers = [w \in Routers \cup Drainers |-> Idle]

\* The recommendation pipeline right after construction: no data source and
\* no agent reference is set, nothing was asked.
InitPipeline ==
    /\ vector_db = NoVectorDb
    /\ popularity_agent = FALSE
    /\ request = NoRequest
    /\ reply = NoReply

\* No book was scored yet.
NoScores == [popularity |-> <<>>, simple |-> <<>>, trend |-> <<>>]

InitScores ==
    /\ books = <<>>
    /\ scores = NoScores

Init == InitAgents /\ InitPipeline /\ InitScores

\* --------------------------------------------------------------- BaseAgent
\* send_message that also records the message in the hub history.
send_message_Records(o, receiver, type, prio) ==
    /\ in_flight = {}
    /\ in_flight' = {AgentMessage(next_uuid, agent_id(o), receiver, type, prio)}
    /\ message_history' = Append(message_history,
                  AgentMessage(next_uuid, agent_id(o), receiver, type, prio))
    /\ next_uuid' = next_uuid + 1
    /\ response' = None
    /\ last_op' = "send_message"
    /\ UNCHANGED workers
    /\ UNCHANGED pipeline_vars
    /\ UNCHANGED <<agents, message_queue, is_active,
                   processed, received, dropped, registered_last>>

\* BaseAgent.send_message: builds and returns the message, nothing else.
send_message(o, receiver, type, prio) ==
    /\ in_flight = {}
    /\ in_flight' = {AgentMessage(next_uuid, agent_id(o), receiver, type, prio)}
    /\ next_uuid' = next_uuid + 1
    /\ response' = None
    /\ last_op' = "send_message"
    /\ UNCHANGED workers
    /\ UNCHANGED pipeline_vars
    /\ UNCHANGED <<agents, message_history, message_queue, is_active,
                   processed, received, dropped, registered_last>>

\* The message kinds each concrete agent's process_message dispatches on.
handled_types(o) ==
    CASE o = "cls" -> {"classify_text", "detect_emotion", "categorize_book"}
      [] o = "pop" -> {"analyze_popularity", "detect_trends",
                       "score_recommendations", "get_popular_books"}
      [] OTHER     -> {"get_recommendations", "semantic_search",
                       "analyze_user_preferences",
                       "get_personalized_recommendations"}

\* Whether process_message answers m: a known kind yields a result or, when
\* the handler raises, an error response; an unknown kind yields None.
Responds(o, m) == m.message_type \in handled_types(o)

\* A result built without priority=message.priority: send_message's default.
result_response_DefaultPriority(o, m, uuid) ==
    AgentMessage(uuid, agent_id(o), m.sender_id, "result", 1)

\* The handler's result: self.send_message(message.sender_id, <kind>_result,
\* ..., priority=message.priority)
result_response(o, m, uuid) ==
    AgentMessage(uuid, agent_id(o), m.sender_id, "result", m.priority)

\* An error response that names itself instead of the request it answers.
error_response_OwnId(o, m, uuid, cause) ==
    [AgentMessage(uuid, agent_id(o), m.sender_id, "error_response", 3)
        EXCEPT !.content = [error |-> cause, original_message_id |-> uuid]]

\* _create_error_response: self.send_message(original_message.sender_id,
\* "error_response", {"error": error_msg, "original_message_id":
\* original_message.message_id, ...}, priority=3)
error_response(o, m, uuid, cause) ==
    [AgentMessage(uuid, agent_id(o), m.sender_id, "error_response", 3)
        EXCEPT !.content = [error |-> cause,
                            original_message_id |-> m.message_id]]

\* str(e) of the exception a handler raised.
HandlerFault == "handler raised"

\* process_message of the concrete agents: try / dispatch / except.
process_message(o, m, uuid, raises) ==
    IF ~Responds(o, m) THEN None
    ELSE IF raises THEN error_response(o, m, uuid, HandlerFault)
    ELSE result_response(o, m, uuid)

\* The state the hub operations work on: the mailboxes, the history and the
\* call records.
HubState == [queue |-> message_queue, history |-> message_history,
             received |-> received, dropped |-> dropped]

\* BaseAgent.receive_message: self.message_queue.append(message)
Receive(h, o, m) ==
    [h EXCEPT !.queue[o] = Append(@, m), !.received[o] = Append(@, m)]

receive_message(o, m) ==
    /\ m \in in_flight
    /\ in_flight' = in_flight \ {m}
    /\ message_queue' = Receive(HubState, o, m).queue
    /\ received' = Receive(HubState, o, m).received
    /\ response' = None
    /\ last_op' = "receive_message"
    /\ UNCHANGED workers
    /\ UNCHANGED pipeline_vars
    /\ UNCHANGED <<agents, message_history, is_active, next_uuid,
                   processed, dropped, registered_last>>

\* Drain with pop() in place of pop(0): the newest message is taken first.
RECURSIVE Drain_PopLast(_, _, _, _)
Drain_PopLast(o, active, q, done) ==
    IF q = <<>> \/ ~active
    THEN [queue |-> q, handled |-> done, answered |-> FALSE]
    ELSE LET m == q[Len(q)]
             rest == SubSeq(q, 1, Len(q) - 1)
         IN  IF Responds(o, m)
             THEN [queue |-> rest, handled |-> Append(done, m), answered |-> TRUE]
             ELSE Drain_PopLast(o, active, rest, Append(done, m))

\* Drain with message_queue[0] in place of pop(0) for the message that is
\* answered: it stays queued.
RECURSIVE Drain_Peek(_, _, _, _)
Drain_Peek(o, active, q, done) ==
    IF q = <<>> \/ ~active
    THEN [queue |-> q, handled |-> done, answered |-> FALSE]
    ELSE IF Responds(o, Head(q))
    THEN [queue |-> q, handled |-> Append(done, Head(q)), answered |-> TRUE]
    ELSE Drain_Peek(o, active, Tail(q), Append(done, Head(q)))

\* Drain that returns after the first message whatever process_message gave.
Drain_StopAtUnhandled(o, active, q, done) ==
    IF q = <<>> \/ ~active
    THEN [queue |-> q, handled |-> done, answered |-> FALSE]
    ELSE [queue |-> Tail(q), handled |-> Append(done, Head(q)),
          answered |-> Responds(o, Head(q))]

\* The while loop of BaseAgent.process_queue on mailbox q with `done` already
\* handled: pop(0), process_message, return at the first response.
RECURSIVE Drain(_, _, _, _)
Drain(o, active, q, done) ==
    IF q = <<>> \/ ~active
    THEN [queue |-> q, handled |-> done, answered |-> FALSE]
    ELSE IF Responds(o, Head(q))
    THEN [queue |-> Tail(q), handled |-> Append(done, Head(q)), answered |-> TRUE]
    ELSE Drain(o, active, Tail(q), Append(done, Head(q)))

\* uuid4 of a response: message ids are distinct integers, the callers'
\* requests draw the first ones and the responses the numbers after them.
response_uuid ==
    MaxMsgs + MaxAgentMsgs + MaxConcMsgs + 1 + Len(processed["cls"]) + Len(processed["pop"])
                + Len(processed["sug"]) + Len(processed["sug2"])

\* BaseAgent.process_queue; `raises` says whether the answering handler raised.
process_queue(o, raises) ==
    LET d == Drain(o, is_active[o], message_queue[o], <<>>)
        last == d.handled[Len(d.handled)]
    IN  /\ message_queue' = [message_queue EXCEPT ![o] = d.queue]
        /\ processed' = [processed EXCEPT ![o] = @ \o d.handled]
        /\ response' = IF d.answered
                       THEN process_message(o, last, response_uuid, raises)
                       ELSE None
        /\ last_op' = "process_queue"
        /\ UNCHANGED workers
        /\ UNCHANGED pipeline_vars
        /\ UNCHANGED <<agents, message_history, is_active, next_uuid,
                       in_flight, received, dropped, registered_last>>

\* The owner of an agent object switches its public is_active flag.
set_active(o, b) ==
    /\ is_active[o] # b
    /\ is_active' = [is_active EXCEPT ![o] = b]
    /\ response' = None
    /\ last_op' = "set_active"
    /\ UNCHANGED workers
    /\ UNCHANGED pipeline_vars
    /\ UNCHANGED <<agents, message_history, message_queue, next_uuid,
                   in_flight, processed, received, dropped, registered_last>>

\* --------------------------------------------------- AgentCommunicationHub
\* register_agent that hands the replaced agent's pending messages to the
\* new agent.
register_agent_MovesMailbox(o) ==
    LET id == agent_id(o)
        old == IF Registered(agents, id) THEN Lookup(agents, id) ELSE o
    IN  /\ agents' = DictSet(agents, id, o)
        /\ message_queue' =
              IF old = o THEN message_queue
              ELSE [message_queue EXCEPT ![o] = @ \o message_queue[old],
                                         ![old] = <<>>]
        /\ response' = None
        /\ last_op' = "register_agent"
        /\ registered_last' = [registered_last EXCEPT ![id] = o]
        /\ UNCHANGED workers
        /\ UNCHANGED pipeline_vars
        /\ UNCHANGED <<message_history, is_active, next_uuid,
                       in_flight, processed, received, dropped>>

\* AgentCommunicationHub.register_agent: self.agents[agent.agent_id] = agent
register_agent(o) ==
    /\ agents' = DictSet(agents, agent_id(o), o)
    /\ response' = None
    /\ last_op' = "register_agent"
    /\ registered_last' = [registered_last EXCEPT ![agent_id(o)] = o]
    /\ UNCHANGED workers
    /\ UNCHANGED pipeline_vars
    /\ UNCHANGED <<message_history, message_queue, is_active, next_uuid,
                   in_flight, processed, received, dropped>>

\* Route with the history append moved out of the if: a miss is recorded too.
Route_HistoryOnMiss(h, reg, m) ==
    IF Registered(reg, m.receiver_id)
    THEN LET r == Receive(h, Lookup(reg, m.receiver_id), m)
         IN  [r EXCEPT !.history = Append(@, m)]
    ELSE [h EXCEPT !.dropped = @ \cup {m}, !.history = Append(@, m)]

\* Route with message_history.insert(0, message) in place of append.
Route_HistoryFirst(h, reg, m) ==
    IF Registered(reg, m.receiver_id)
    THEN LET r == Receive(h, Lookup(reg, m.receiver_id), m)
         IN  [r EXCEPT !.history = <<m>> \o @]
    ELSE [h EXCEPT !.dropped = @ \cup {m}]

\* The body of AgentCommunicationHub.route_message on hub state h.
Route(h, reg, m) ==
    IF Registered(reg, m.receiver_id)
    THEN LET r == Receive(h, Lookup(reg, m.receiver_id), m)
         IN  [r EXCEPT !.history = Append(@, m)]
    ELSE [h EXCEPT !.dropped = @ \cup {m}]

route_message(m) ==
    /\ m \in in_flight
    /\ in_flight' = in_flight \ {m}
    /\ LET h == Route(HubState, agents, m)
       IN  /\ message_queue' = h.queue
           /\ message_history' = h.history
           /\ received' = h.received
           /\ dropped' = h.dropped
    /\ response' = None
    /\ last_op' = "route_message"
    /\ UNCHANGED workers
    /\ UNCHANGED pipeline_vars
    /\ UNCHANGED <<agents, is_active, next_uuid, processed, registered_last>>

\* Peers without the `if agent_id != sender_id` test.
Peers_All(reg, sender) == reg

\* The receivers of a broadcast: the items of self.agents whose key differs
\* from sender_id, in dict order.
Peers(reg, sender) == SelectSeq(reg, LAMBDA item : item[1] # sender)

\* The loop of broadcast_message over the items still to visit: the message
\* is built by the RECEIVING agent's send_message (agent.send_message), so
\* its sender_id is that agent's own identity.
RECURSIVE Broadcast(_, _, _, _, _, _)
Broadcast(h, reg, items, type, prio, uuid) ==
    IF items = <<>> THEN h
    ELSE LET key == Head(items)[1]
             agent == Head(items)[2]
             message == AgentMessage(uuid, agent_id(agent), key, type, prio)
         IN  Broadcast(Route(h, reg, message), reg, Tail(items), type, prio,
                       uuid + 1)

broadcast_message(sender, type, prio) ==
    LET peers == Peers(agents, sender)
        h == Broadcast(HubState, agents, peers, type, prio, next_uuid)
    IN  /\ next_uuid + Len(peers) - 1 <= MaxMsgs
        /\ message_queue' = h.queue
        /\ message_history' = h.history
        /\ received' = h.received
        /\ dropped' = h.dropped
        /\ next_uuid' = next_uuid + Len(peers)
        /\ response' = None
        /\ last_op' = "broadcast_message"
        /\ UNCHANGED workers
        /\ UNCHANGED pipeline_vars
        /\ UNCHANGED <<agents, is_active, in_flight, processed,
                       registered_last>>

\* ------------------------------------------------------------------- Next
\* The hub and its agents: every delivery goes through the hub.  Handlers
\* that raise are exercised by SpecAgent.
Next ==
    \/ /\ next_uuid <= MaxMsgs
       /\ \E o \in Callers, r \in Receivers, t \in RequestTypes :
             send_message(o, r, t, 1)
    \/ \E o \in Instances : process_queue(o, FALSE)
    \/ \E o \in Instances : register_agent(o)
    \/ \E m \in in_flight : route_message(m)
    \/ \E s \in AgentIds, t \in RequestTypes : broadcast_message(s, t, 1)

Spec == Init /\ [][Next]_vars

\* A stand-alone agent object (BaseAgent without a hub): its caller hands it
\* messages with receive_message, drains it and switches it on and off.
\* Agent objects share no state, so two of them show every case.
NextAgent ==
    \/ /\ next_uuid <= MaxAgentMsgs
       /\ \E o \in Callers, r \in Receivers, t \in RequestTypes :
             send_message(o, r, t, 1)
    \/ \E o \in {"sug", "pop"}, m \in in_flight : receive_message(o, m)
    \/ \E o \in {"sug", "pop"}, raises \in BOOLEAN : process_queue(o, raises)
    \/ \E o \in {"sug", "pop"}, b \in BOOLEAN : set_active(o, b)

SpecAgent == Init /\ [][NextAgent]_vars

\* ------------------------------------------------- threads, step by step
\* route_message and process_queue take no lock.  Under the interpreter lock
\* one list or dict operation (in, [], append, pop) is atomic and a thread
\* may be suspended between any two of them; each action below is one such
\* operation of one thread.
At(w, label, m) == [workers EXCEPT ![w] = [at |-> label, message |-> m]]

\* A router builds its message: suggestion_agent.send_message(...).
router_send(w, type) ==
    /\ workers[w].at = "idle"
    /\ next_uuid <= MaxConcMsgs
    /\ workers' = At(w, "route_check",
                     AgentMessage(next_uuid, agent_id("sug"), agent_id("sug"),
                                  type, 1))
    /\ next_uuid' = next_uuid + 1
    /\ response' = None
    /\ last_op' = "send_message"
    /\ UNCHANGED pipeline_vars
    /\ UNCHANGED <<agents, message_history, message_queue, is_active,
                   in_flight, processed, received, dropped, registered_last>>

\* route_message: `if message.receiver_id in self.agents:`; on a miss the
\* else branch logs and returns.
route_check(w) ==
    LET m == workers[w].message
    IN  /\ workers[w].at = "route_check"
        /\ IF Registered(agents, m.receiver_id)
           THEN /\ workers' = At(w, "route_receive", m)
                /\ UNCHANGED dropped
           ELSE /\ workers' = At(w, "idle", None)
                /\ dropped' = dropped \cup {m}
        /\ response' = None
        /\ last_op' = "route_message"
        /\ UNCHANGED pipeline_vars
        /\ UNCHANGED <<agents, message_history, message_queue, is_active,
                       next_uuid, in_flight, processed, received,
                       registered_last>>

\* route_message: self.agents[message.receiver_id].receive_message(message)
route_receive(w) ==
    LET m == workers[w].message
        h == Receive(HubState, Lookup(agents, m.receiver_id), m)
    IN  /\ workers[w].at = "route_receive"
        /\ message_queue' = h.queue
        /\ received' = h.received
        /\ workers' = At(w, "route_history", m)
        /\ response' = None
        /\ last_op' = "route_message"
        /\ UNCHANGED pipeline_vars
        /\ UNCHANGED <<agents, message_history, is_active, next_uuid,
                       in_flight, processed, dropped, registered_last>>

\* route_message: self.message_history.append(message)
route_history(w) ==
    /\ workers[w].at = "route_history"
    /\ message_history' = Append(message_history, workers[w].message)
    /\ workers' = At(w, "idle", None)
    /\ response' = None
    /\ last_op' = "route_message"
    /\ UNCHANGED pipeline_vars
    /\ UNCHANGED <<agents, message_queue, is_active, next_uuid, in_flight,
                   processed, received, dropped, registered_last>>

\* process_queue: `while self.message_queue and self.is_active:`; when the
\* test fails the call returns None.
drain_check(w, o) ==
    /\ workers[w].at = "idle"
    /\ IF message_queue[o] # <<>> /\ is_active[o]
       THEN workers' = At(w, "drain_pop", None)
       ELSE workers' = At(w, "idle", None)
    /\ response' = None
    /\ last_op' = "process_queue"
    /\ UNCHANGED pipeline_vars
    /\ UNCHANGED <<agents, message_history, message_queue, is_active,
                   next_uuid, in_flight, processed, received, dropped,
                   registered_last>>

\* process_queue: `message = self.message_queue.pop(0)`; pop(0) of an empty
\* list raises IndexError, which leaves process_queue.
drain_pop(w, o) ==
    /\ workers[w].at = "drain_pop"
    /\ IF message_queue[o] = <<>>
       THEN /\ workers' = At(w, "raised", None)
            /\ UNCHANGED message_queue
       ELSE /\ workers' = At(w, "drain_handle", Head(message_queue[o]))
            /\ message_queue' = [message_queue EXCEPT ![o] = Tail(@)]
    /\ response' = None
    /\ last_op' = "process_queue"
    /\ UNCHANGED pipeline_vars
    /\ UNCHANGED <<agents, message_history, is_active, next_uuid, in_flight,
                   processed, received, dropped, registered_last>>

\* process_queue: `response = self.process_message(message)` and
\* `if response: return response`; without a response the loop goes back to
\* its test, which is the test of drain_check.
drain_handle(w, o) ==
    LET m == workers[w].message
    IN  /\ workers[w].at = "drain_handle"
        /\ processed' = [processed EXCEPT ![o] = Append(@, m)]
        /\ response' = process_message(o, m, response_uuid, FALSE)
        /\ workers' = At(w, "idle", None)
        /\ last_op' = "process_queue"
        /\ UNCHANGED pipeline_vars
        /\ UNCHANGED <<agents, message_history, message_queue, is_active,
                       next_uuid, in_flight, received, dropped,
                       registered_last>>

\* Two routers into the mailbox of the suggestion agent and two drainers of
\* that mailbox; the agent is registered by the thread that set the hub up.
NextConc ==
    \/ register_agent("sug")
    \/ \E w \in Routers, t \in RequestTypes : router_send(w, t)
    \/ \E w \in Routers : route_check(w)
    \/ \E w \in Routers : route_receive(w)
    \/ \E w \in Routers : route_history(w)
    \/ \E w \in Drainers : drain_check(w, "sug")
    \/ \E w \in Drainers : drain_pop(w, "sug")
    \/ \E w \in Drainers : drain_handle(w, "sug")

SpecConc == Init /\ [][NextConc]_vars
\* ------------------------------------------------------- helper operators
Elems(seq) == {seq[i] : i \in 1..Len(seq)}

IsPrefix(p, seq) == Len(p) <= Len(seq) /\ SubSeq(seq, 1, Len(p)) = p

\* No message id occurs twice in seq.
NoRepeat(seq) ==
    \A i, j \in 1..Len(seq) : seq[i].message_id = seq[j].message_id => i = j

\* The part of seq after its first n elements.
Rest(seq, n) == SubSeq(seq, n + 1, Len(seq))

\* ---------------------------------------------------------------- claims
\* C1: one process_queue call on agent o handles a prefix of o's mailbox, in
\* mailbox order; no handled message but the last yields a response; the
\* call returns the response of the last handled message when there is one,
\* and none only when the mailbox ran empty (or the agent is inactive); the
\* messages behind the answered one stay queued in their order.
DrainStep(o) ==
    LET q == message_queue[o]
        n == Len(processed'[o]) - Len(processed[o])
        h == Rest(processed'[o], Len(processed[o]))
    IN  /\ IsPrefix(processed[o], processed'[o])
        /\ n <= Len(q)
        /\ h = SubSeq(q, 1, n)
        /\ message_queue'[o] = Rest(q, n)
        /\ \A i \in 1..(n - 1) : ~Responds(o, h[i])
        /\ response' # None =>
              /\ n >= 1 /\ Responds(o, h[n])
              /\ response'.receiver_id = h[n].sender_id
              /\ response'.sender_id = agent_id(o)
        /\ response' = None =>
              /\ \A i \in 1..n : ~Responds(o, h[i])
              /\ message_queue'[o] = <<>> \/ ~is_active[o]
        /\ ~is_active[o] => n = 0

C2_ExactlyOnce ==
    /\ \A o \in Instances :
          /\ received[o] = processed[o] \o message_queue[o]
          /\ NoRepeat(processed[o] \o message_queue[o])
          /\ message_queue[o] = <<>> => Elems(processed[o]) = Elems(received[o])
    /\ \A o1, o2 \in Instances :
          o1 # o2 => Elems(processed[o1]) \cap Elems(processed[o2]) = {}

\* C2 witness: an agent that received three messages has handled some and
\* still holds some.
C2_Witness ==
    \E o \in Instances :
        /\ Len(received[o]) = 3
        /\ processed[o] # <<>>
        /\ message_queue[o] # <<>>

\* --------------------------------------------------------- claims: the hub
AllQueued == UNION {Elems(message_queue[o]) : o \in Instances}
AllProcessed == UNION {Elems(processed[o]) : o \in Instances}
AllReceived == UNION {Elems(received[o]) : o \in Instances}

RouteMiss(m) ==
    /\ last_op' = "route_message"
    /\ ~Registered(agents, m.receiver_id)
    /\ route_message(m)

RouteHit(m) ==
    /\ last_op' = "route_message"
    /\ Registered(agents, m.receiver_id)
    /\ route_message(m)

\* C4: routing a message whose receiver is not registered completes without
\* a failure for the caller, changes no mailbox, no history entry and no
\* registration, and drops the message for good: a dropped message is in no
\* mailbox, was never handled and is not in the history, whatever is
\* registered later.
C4_UnknownReceiverDropped ==
    /\ [][\A m \in in_flight :
            RouteMiss(m) =>
              /\ UNCHANGED <<message_queue, message_history, agents,
                             received, processed>>
              /\ m \in dropped'
              /\ m \notin in_flight']_vars
    /\ [](\A m \in dropped :
            /\ m \notin AllQueued \cup AllProcessed \cup AllReceived
            /\ m \notin Elems(message_history)
            /\ m \notin in_flight)

\* C4 witness: a message was dropped, an agent with the receiver's identity
\* registered afterwards and has since received another message.
C4_Witness ==
    \E m \in dropped :
        /\ Registered(agents, m.receiver_id)
        /\ message_queue[Lookup(agents, m.receiver_id)] # <<>>

\* C5: routing a message whose receiver is registered appends it to the
\* mailbox of the registered agent and to the history and leaves the other
\* mailboxes alone; the history only ever grows at its end, and each of its
\* entries was delivered to a mailbox and never dropped.
C5_RouteDelivers ==
    /\ [][\A m \in in_flight :
            RouteHit(m) =>
              LET o == Lookup(agents, m.receiver_id)
              IN  /\ message_queue'[o] = Append(message_queue[o], m)
                  /\ \A p \in Instances \ {o} :
                        message_queue'[p] = message_queue[p]
                  /\ message_history' = Append(message_history, m)]_vars
    /\ [][IsPrefix(message_history, message_history')]_vars
    /\ [](\A i \in 1..Len(message_history) :
            /\ message_history[i] \notin dropped
            /\ message_history[i] \in AllReceived)

\* C5 witness: the second successful route: the message is the newest entry
\* of a history of two and the last element of its receiver's mailbox.
C5_Witness ==
    /\ last_op = "route_message"
    /\ Len(message_history) = 2
    /\ \E o \in Instances :
          /\ message_queue[o] # <<>>
          /\ message_queue[o][Len(message_queue[o])] = message_history[2]
          /\ agent_id(o) = message_history[2].receiver_id

\* C6 (as claimed): the history never holds more than a fixed number of
\* entries.  The code has no capacity; the capacity tried here is the largest
\* one the callers of this model can exceed.
HistoryCapacity == MaxMsgs - 1

C6_HistoryBounded == Len(message_history) <= HistoryCapacity

\* C7: a broadcast from a registered sender with N registered agents gives
\* each of the N-1 others exactly one new message at the end of its mailbox,
\* leaves the sender's mailbox and the mailboxes of unregistered objects
\* alone, and adds N-1 history entries.
BroadcastStep(s) ==
    LET N == Len(agents)
    IN  /\ Len(message_history') = Len(message_history) + N - 1
        /\ \A i \in 1..N :
              LET id == agents[i][1]
                  o == agents[i][2]
                  q == message_queue'[o]
              IN  IF id = s
                  THEN q = message_queue[o]
                  ELSE /\ Len(q) = Len(message_queue[o]) + 1
                       /\ IsPrefix(message_queue[o], q)
                       /\ q[Len(q)].message_id >= next_uuid
                       /\ q[Len(q)].receiver_id = id
        /\ \A o \in Instances :
              (\A i \in 1..N : agents[i][2] # o) =>
                  message_queue'[o] = message_queue[o]

C7_BroadcastReachesOthers ==
    [][last_op' = "broadcast_message" =>
          \A s \in AgentIds :
             /\ Registered(agents, s)
             /\ \E t \in RequestTypes : broadcast_message(s, t, 1)
             => BroadcastStep(s)]_vars

\* C7 witness: a broadcast with 3 registered agents made 2 deliveries and 2
\* history entries, none to the sender.
C7_Witness ==
    /\ last_op = "broadcast_message"
    /\ Len(agents) = 3
    /\ Len(message_history) = 2
    /\ Cardinality(AllQueued) = 2
    /\ \E i \in 1..3 :
          /\ message_queue[agents[i][2]] = <<>>
          /\ \A j \in 1..3 : j # i => Len(message_queue[agents[j][2]]) = 1

\* C8: the registry binds each identity at most once, and to the object of
\* the latest register_agent call for it; registering the bound object again
\* changes nothing; a route to an identity is delivered to the object
\* registered last.
C8_RegisterUpsertLastWins ==
    /\ [](/\ \A i, j \in 1..Len(agents) : agents[i][1] = agents[j][1] => i = j
          /\ \A id \in AgentIds :
                IF registered_last[id] = ""
                THEN ~Registered(agents, id)
                ELSE /\ Registered(agents, id)
                     /\ Lookup(agents, id) = registered_last[id])
    /\ [][last_op' = "register_agent" =>
            \A o \in Instances :
               registered_last[agent_id(o)] = o /\ register_agent(o)
               => agents' = agents]_vars
    /\ [][last_op' = "route_message" =>
            \A m \in in_flight :
               registered_last[m.receiver_id] # "" /\ route_message(m)
               => LET o == registered_last[m.receiver_id]
                  IN  message_queue'[o] = Append(message_queue[o], m)]_vars

\* C8 witness: both suggestion agents were registered, "sug2" last, each got
\* a message while it was bound, and the latest route went to "sug2".
C8_Witness ==
    /\ last_op = "route_message"
    /\ registered_last["suggestion_001"] = "sug2"
    /\ message_queue["sug"] # <<>>
    /\ message_queue["sug2"] # <<>>
    /\ message_history[Len(message_history)] \in Elems(message_queue["sug2"])

\* C9 (as claimed): every change of a mailbox is an append made by
\* receive_message.
C9_OnlyReceiveMutates ==
    [][\A o \in Instances :
          message_queue'[o] # message_queue[o] =>
              /\ Len(received'[o]) = Len(received[o]) + 1
              /\ message_queue'[o] =
                    Append(message_queue[o], received'[o][Len(received'[o])])]_vars

\* C9 (amended): a mailbox changes only by receive_message appending one
\* message to it or by process_queue of its agent removing the messages it
\* handles from its head.
C9_MailboxMutators ==
    [][\A o \in Instances :
          message_queue'[o] # message_queue[o] =>
              \/ /\ Len(received'[o]) = Len(received[o]) + 1
                 /\ message_queue'[o] =
                       Append(message_queue[o], received'[o][Len(received'[o])])
              \/ /\ last_op' = "process_queue"
                 /\ received'[o] = received[o]
                 /\ \E n \in 1..Len(message_queue[o]) :
                       /\ message_queue'[o] = Rest(message_queue[o], n)
                       /\ processed'[o] =
                             processed[o] \o SubSeq(message_queue[o], 1, n)]_vars

\* C9 witness: a drain has removed handled messages from a mailbox and left
\* one behind, next to a mailbox that was only appended to.
C9_Witness ==
    /\ last_op = "process_queue"
    /\ \E o \in Instances : processed[o] # <<>>
    /\ \E o \in Instances : message_queue[o] # <<>>

\* C10: send_message builds one message and hands it to its caller: no
\* mailbox, no registration and no history entry changes, and a message held
\* by its creator is in no mailbox and not in the history.
C10_SendOnlyConstructs ==
    /\ [][last_op' = "send_message" =>
            /\ UNCHANGED <<message_queue, agents, message_history,
                           received, processed>>
            /\ \E m \in in_flight' :
                  /\ in_flight' = {m}
                  /\ m.message_id = next_uuid]_vars
    /\ [](\A m \in in_flight :
            /\ m \notin AllQueued \cup AllProcessed
            /\ m \notin Elems(message_history))

\* C10 witness: a message was built for a registered receiver and has not
\* reached that receiver's mailbox.
C10_Witness ==
    /\ last_op = "send_message"
    /\ \E m \in in_flight :
          /\ Registered(agents, m.receiver_id)
          /\ message_queue[Lookup(agents, m.receiver_id)] = <<>>

\* C25: a register_agent call that replaces the agent bound to an identity
\* leaves the mailbox of the replaced agent as it is, hands none of its
\* pending messages to the new agent or to a handler, and leaves a new agent
\* that never received a message with an empty mailbox; whatever the hub
\* delivers afterwards to the identity goes to the agent bound last.
C25_ReplacedMailboxUntouched ==
    /\ [][last_op' = "register_agent" =>
            \A id \in AgentIds :
               (Registered(agents, id)
                   /\ Lookup(agents', id) # Lookup(agents, id))
               => LET old == Lookup(agents, id)
                      new == Lookup(agents', id)
                  IN  /\ new = registered_last'[id]
                      /\ message_queue'[old] = message_queue[old]
                      /\ processed'[old] = processed[old]
                      /\ message_queue'[new] = message_queue[new]
                      /\ received[new] = <<>> => message_queue'[new] = <<>>
                      /\ message_history' = message_history
                      /\ in_flight' = in_flight]_vars
    /\ [][\A o \in Instances :
             received'[o] # received[o]
             => /\ registered_last[agent_id(o)] = o
                /\ \A x \in Instances \ {o} :
                      agent_id(x) = agent_id(o) => received'[x] = received[x]]_vars

\* C25 witness: "sug2" has just replaced "sug", whose mailbox still holds a
\* pending message; "sug2" never received one and its mailbox is empty.
C25_Witness ==
    /\ last_op = "register_agent"
    /\ registered_last["suggestion_001"] = "sug2"
    /\ Lookup(agents, "suggestion_001") = "sug2"
    /\ message_queue["sug"] # <<>>
    /\ processed["sug"] = <<>>
    /\ received["sug2"] = <<>>
    /\ message_queue["sug2"] = <<>>

\* C26: the messages a broadcast_message(sender, ...) call delivers all name
\* one identity as their sender, the broadcaster, which is the identity of
\* none of the agents they land at, and each names the identity of the agent
\* whose mailbox it lands in as its receiver.
C26_BroadcastNamesBroadcaster ==
    [][last_op' = "broadcast_message" =>
          \E s \in AgentIds :
             \A o \in Instances :
                \A i \in (Len(received[o]) + 1)..Len(received'[o]) :
                   /\ received'[o][i].sender_id = s
                   /\ agent_id(o) # s
                   /\ received'[o][i].receiver_id = agent_id(o)]_vars

\* ----------------------------------------------------- claims: the threads
\* The messages the drainers have popped and not yet handled.
Popped == {workers[w].message : w \in {d \in Drainers : workers[d].at = "drain_handle"}}

\* C3 (as claimed): with routers and drainers running concurrently, no
\* process_queue call fails on an empty mailbox, no message is handled twice
\* or lost, and the messages of a mailbox are handled in the order they were
\* appended to it.
C3_ConcurrentExactlyOnceFifo ==
    /\ \A w \in Drainers : workers[w].at # "raised"
    /\ NoRepeat(processed["sug"])
    /\ IsPrefix(processed["sug"], received["sug"])
    /\ Elems(received["sug"]) =
          Elems(processed["sug"]) \cup Elems(message_queue["sug"]) \cup Popped

\* ------------------------------------------- a loaded mailbox is drained
\* An agent whose mailbox holds messages its callers delivered and that
\* receives nothing more; its owner calls process_queue again and again.
\* The messages come from either identity, with normal or raised priority,
\* of a kind the agent dispatches on or of one it does not.
QueuedSenders == {"suggestion_001", "popularity_001"}
QueuedPriorities == {1, 2}

Mailboxes(o, n) ==
    {[i \in 1..n |->
         AgentMessage(i, f[i].sender, agent_id(o), f[i].type, f[i].priority)] :
       f \in [1..n -> [sender : QueuedSenders, type : RequestTypes,
                       priority : QueuedPriorities]]}

InitDrain ==
    /\ InitPipeline
    /\ InitScores
    /\ agents = <<>>
    /\ message_history = <<>>
    /\ in_flight = {}
    /\ response = None
    /\ processed = [o \in Instances |-> <<>>]
    /\ dropped = {}
    /\ last_op = "init"
    /\ registered_last = [id \in AgentIds |-> ""]
    /\ workers = [w \in Routers \cup Drainers |-> Idle]
    /\ \E o \in {"sug", "pop"}, n \in 0..MaxQueued, b \in BOOLEAN :
          \E q \in Mailboxes(o, n) :
             /\ message_queue = [x \in Instances |-> IF x = o THEN q ELSE <<>>]
             /\ received = [x \in Instances |-> IF x = o THEN q ELSE <<>>]
             /\ is_active = [x \in Instances |-> IF x = o THEN b ELSE TRUE]
             /\ next_uuid = n + 1

NextDrain ==
    \E o \in {"sug", "pop"}, raises \in BOOLEAN : process_queue(o, raises)

SpecDrain == InitDrain /\ [][NextDrain]_vars

\* The owner of each agent keeps calling its process_queue.
SpecDrainFair ==
    /\ SpecDrain
    /\ \A o \in {"sug", "pop"} :
          WF_vars(\E raises \in BOOLEAN : process_queue(o, raises))

\* ------------------------------------------ the recommendation pipeline
\* Documents the vector store ranks for one query.
MaxDocs == 3

\* The largest top_k a request asks for.
MaxTopK == 2

\* Scores are kept as integers: ScoreUnit stands for the float 1.0, ratings
\* are in tenths of a star (MaxRating is 5.0) and emotion scores in tenths.
ScoreUnit == 5000
MaxRating == 50

\* dict.get(key, default) and dict[key] = value
Get(d, k, default) == IF k \in DOMAIN d THEN d[k] ELSE default
Put(d, k, v) == [x \in DOMAIN d \cup {k} |-> IF x = k THEN v ELSE d[x]]

\* One row of the catalog DataFrame.
Row(isbn, category, rating, count, joy, sadness) ==
    [isbn13 |-> isbn, simple_categories |-> category,
     average_rating |-> rating, ratings_count |-> count,
     joy |-> joy, sadness |-> sadness, anger |-> sadness, fear |-> 0,
     surprise |-> joy]

\* books_df: books 1 and 2 have the same rating and count and differ in
\* tone, isbn 1 has a second row, and one row carries the falsy isbn13 0.
books_df ==
    << Row(1, "Fiction", 45, 999, 2, 8),
       Row(2, "Fiction", 45, 999, 9, 1),
       Row(3, "Nonfiction", 30, 9, 5, 5),
       Row(1, "Nonfiction", 20, 9, 0, 0),
       Row(0, "Nonfiction", 50, 9999, 5, 5) >>

\* The isbn numbers read from the documents the vector store returns; 9 is
\* in no row of books_df.
DocIsbns == {0, 1, 2, 3, 9}

\* vector_db.similarity_search(query, k=top_k): the k best documents.
similarity_search(k) ==
    SubSeq(vector_db.docs, 1, IF k < Len(vector_db.docs) THEN k
                               ELSE Len(vector_db.docs))

\* self.books_df[self.books_df["isbn13"] == isbn_num]
book_data(isbn_num) == SelectSeq(books_df, LAMBDA row : row.isbn13 = isbn_num)

\* The loop over docs: book_data.iloc[0].to_dict() is appended for every
\* document whose isbn has a row. Each to_dict() is a new dict object;
\* similarity_rank names that object by the rank of its document.
RECURSIVE book_infos(_, _)
book_infos(docs, rank) ==
    IF docs = <<>> THEN <<>>
    ELSE IF book_data(Head(docs)) = <<>>
    THEN book_infos(Tail(docs), rank + 1)
    ELSE <<Put(book_data(Head(docs))[1], "similarity_rank", rank)>>
            \o book_infos(Tail(docs), rank + 1)

\* SuggestionAgent._perform_semantic_search
_perform_semantic_search(top_k) ==
    IF vector_db.status = "unset" THEN <<>>
    ELSE IF vector_db.status = "raises" THEN <<>>
    ELSE book_infos(similarity_search(top_k), 1)

\* sorted(seq, key=lambda x: x.get(field, 0), reverse=True): the sort is
\* stable, records with equal keys keep their order.
RECURSIVE InsertDesc(_, _, _)
InsertDesc(done, x, field) ==
    IF done = <<>> THEN <<x>>
    ELSE IF Get(Head(done), field, 0) >= Get(x, field, 0)
    THEN <<Head(done)>> \o InsertDesc(Tail(done), x, field)
    ELSE <<x>> \o done

RECURSIVE SortFrom(_, _, _)
SortFrom(done, rest, field) ==
    IF rest = <<>> THEN done
    ELSE SortFrom(InsertDesc(done, Head(rest), field), Tail(rest), field)

sorted(seq, field) == SortFrom(<<>>, seq, field)

\* A category filter that keeps everything when nothing matches.
CategoryFilter_KeepAllOnMiss(results, category) ==
    IF \E i \in 1..Len(results) :
           Get(results[i], "simple_categories", "") = category
    THEN SelectSeq(results,
                   LAMBDA r : Get(r, "simple_categories", "") = category)
    ELSE results

\* [r for r in filtered if r.get("simple_categories") == filters["category"]]
CategoryFilter(results, category) ==
    SelectSeq(results, LAMBDA r : Get(r, "simple_categories", "") = category)

\* [r for r in filtered if r.get("average_rating", 0) >= filters["min_rating"]]
RatingFilter(results, min_rating) ==
    SelectSeq(results, LAMBDA r : Get(r, "average_rating", 0) >= min_rating)

\* emotion_mapping of _filter_by_emotion
emotion_mapping ==
    [Happy |-> "joy", Sad |-> "sadness", Angry |-> "anger",
     Suspenseful |-> "fear", Surprising |-> "surprise"]

\* result.get("isbn13", ""): every row of books_df has the column, so the
\* default (falsy, here 0) is never taken.
IsbnOf(result) == Get(result, "isbn13", 0)

\* SuggestionAgent._get_emotion_scores: a dict keyed by isbn; a later
\* result with the same isbn overwrites the entry.
_get_emotion_scores(results) ==
    [isbn \in {IsbnOf(results[i]) : i \in 1..Len(results)} |->
        LET last == results[CHOOSE i \in 1..Len(results) :
                              /\ IsbnOf(results[i]) = isbn
                              /\ \A j \in (i + 1)..Len(results) :
                                     IsbnOf(results[j]) # isbn]
        IN  [joy |-> Get(last, "joy", 0), sadness |-> Get(last, "sadness", 0),
             anger |-> Get(last, "anger", 0), fear |-> Get(last, "fear", 0),
             surprise |-> Get(last, "surprise", 0)]]

\* The emotion step without the final sort.
_filter_by_emotion_Unsorted(results, emotion_scores, emotion_tone) ==
    LET target_emotion == Get(emotion_mapping, emotion_tone, "joy")
    IN  [i \in 1..Len(results) |->
            Put(results[i], "emotion_score",
                Get(Get(emotion_scores, IsbnOf(results[i]), <<>>),
                    target_emotion, 0))]

\* An emotion step that stores its score in the rating of the record.
_filter_by_emotion_IntoRating(results, emotion_scores, emotion_tone) ==
    LET target_emotion == Get(emotion_mapping, emotion_tone, "joy")
        scored == [i \in 1..Len(results) |->
                      Put(results[i], "average_rating",
                          Get(Get(emotion_scores, IsbnOf(results[i]), <<>>),
                              target_emotion, 0))]
    IN  sorted(scored, "emotion_score")

\* SuggestionAgent._filter_by_emotion
_filter_by_emotion(results, emotion_scores, emotion_tone) ==
    LET target_emotion == Get(emotion_mapping, emotion_tone, "joy")
        scored == [i \in 1..Len(results) |->
                      Put(results[i], "emotion_score",
                          Get(Get(emotion_scores, IsbnOf(results[i]), <<>>),
                              target_emotion, 0))]
    IN  sorted(scored, "emotion_score")

\* SuggestionAgent._apply_filters; a missing key reads as None, which is
\* falsy like "" and 0.
_apply_filters(results, filters) ==
    LET by_category ==
            IF filters.category # "" /\ filters.category # "All"
            THEN CategoryFilter(results, filters.category)
            ELSE results
        by_rating ==
            IF filters.min_rating # 0
            THEN RatingFilter(by_category, filters.min_rating)
            ELSE by_category
    IN  IF filters.emotion_tone # "" /\ filters.emotion_tone # "All"
        THEN _filter_by_emotion(by_rating, _get_emotion_scores(by_rating),
                                filters.emotion_tone)
        ELSE by_rating

\* np.log10 on the counts of the model, where count + 1 is a power of ten
\* and the logarithm is a whole number.
RECURSIVE Log10(_)
Log10(n) == IF n < 10 THEN 0 ELSE 1 + Log10(n \div 10)

\* min(a, b)
Min(a, b) == IF a <= b THEN a ELSE b

\* A simple score whose count share is not capped at 1.0.
_calculate_simple_popularity_score_NoCap(book) ==
    LET rating == Get(book, "average_rating", 0)
        count == Get(book, "ratings_count", 0)
        rating_score == (rating * ScoreUnit) \div MaxRating
        count_score == (Log10(count + 1) * ScoreUnit) \div 5
    IN  (rating_score * 6) \div 10 + (count_score * 4) \div 10

\* SuggestionAgent._calculate_simple_popularity_score:
\* (rating / 5.0) * 0.6 + min(log10(count + 1) / 5, 1.0) * 0.4
_calculate_simple_popularity_score(book) ==
    LET rating == Get(book, "average_rating", 0)
        count == Get(book, "ratings_count", 0)
        rating_score == (rating * ScoreUnit) \div MaxRating
        count_score == Min((Log10(count + 1) * ScoreUnit) \div 5, ScoreUnit)
    IN  (rating_score * 6) \div 10 + (count_score * 4) \div 10

\* SuggestionAgent._get_popularity_scores: {} without a popularity agent,
\* else a dict keyed by isbn (a later result overwrites the entry).
_get_popularity_scores(results) ==
    IF ~popularity_agent THEN <<>>
    ELSE [isbn \in {IsbnOf(results[i]) : i \in 1..Len(results)} |->
             _calculate_simple_popularity_score(
                 results[CHOOSE i \in 1..Len(results) :
                           /\ IsbnOf(results[i]) = isbn
                           /\ \A j \in (i + 1)..Len(results) :
                                  IsbnOf(results[j]) # isbn])]

\* A deduplication in which a later result replaces the one kept for its isbn.
RECURSIVE Unique_KeepLast(_, _)
Unique_KeepLast(results, seen_isbns) ==
    IF results = <<>> THEN <<>>
    ELSE IF IsbnOf(Head(results)) # 0
            /\ \A j \in 2..Len(results) :
                   IsbnOf(results[j]) # IsbnOf(Head(results))
    THEN <<Head(results)>> \o Unique_KeepLast(Tail(results), seen_isbns)
    ELSE Unique_KeepLast(Tail(results), seen_isbns)

\* A deduplication that tests only `isbn not in seen_isbns`.
RECURSIVE Unique_KeepFalsy(_, _)
Unique_KeepFalsy(results, seen_isbns) ==
    IF results = <<>> THEN <<>>
    ELSE IF IsbnOf(Head(results)) \notin seen_isbns
    THEN <<Head(results)>>
            \o Unique_KeepFalsy(Tail(results),
                                seen_isbns \cup {IsbnOf(Head(results))})
    ELSE Unique_KeepFalsy(Tail(results), seen_isbns)

\* The loop `if isbn and isbn not in seen_isbns:` of both ranking functions.
RECURSIVE Unique(_, _)
Unique(results, seen_isbns) ==
    IF results = <<>> THEN <<>>
    ELSE IF IsbnOf(Head(results)) # 0 /\ IsbnOf(Head(results)) \notin seen_isbns
    THEN <<Head(results)>>
            \o Unique(Tail(results), seen_isbns \cup {IsbnOf(Head(results))})
    ELSE Unique(Tail(results), seen_isbns)

\* A slice that returns one element more than asked for.
Slice_OneMore(seq, top_k) ==
    SubSeq(seq, 1, Min(top_k + 1, Len(seq)))

\* seq[:top_k]
Slice(seq, top_k) ==
    IF top_k >= 0 THEN SubSeq(seq, 1, Min(top_k, Len(seq)))
    ELSE SubSeq(seq, 1, Len(seq) + top_k)

\* SuggestionAgent._synthesize_recommendations
_synthesize_recommendations(results, popularity_scores, top_k) ==
    LET unique_results == Unique(results, {})
        scored == [i \in 1..Len(unique_results) |->
                      Put(unique_results[i], "popularity_score",
                          Get(popularity_scores, IsbnOf(unique_results[i]), 0))]
    IN  Slice(sorted(scored, "popularity_score"), top_k)

\* The message id of the request and of the response to it.
RequestId == 1
ResponseId == 2

\* The response a handler returns: self.send_message(message.sender_id,
\* kind, response_content, priority=message.priority)
Response(m, kind, response_content) ==
    [AgentMessage(ResponseId, agent_id("sug"), m.sender_id, kind, m.priority)
        EXCEPT !.content = response_content]

\* filters.get(...) on a content["filters"] that is no dict
FiltersFault == "'NoneType' object has no attribute 'get'"

\* A filters value is a dict unless it carries a type tag.
IsDict(filters) == "type" \notin DOMAIN filters

\* A handler that answers an empty retrieval with an error, as the
\* popularity agent answers empty books_data.
_handle_recommendation_request_ErrorOnEmpty(m) ==
    LET top_k == m.content.top_k
        semantic_results == _perform_semantic_search(top_k * 2)
        filtered_results == _apply_filters(semantic_results, m.content.filters)
        popularity_scores == _get_popularity_scores(filtered_results)
        final_recommendations ==
            _synthesize_recommendations(filtered_results, popularity_scores,
                                        top_k)
    IN  IF ~IsDict(m.content.filters)
        THEN [raised |-> TRUE, cause |-> FiltersFault]
        ELSE IF semantic_results = <<>>
        THEN [raised |-> TRUE, cause |-> "No books found"]
        ELSE [raised |-> FALSE,
              message |-> Response(m, "recommendation_result",
                            [recommendations |-> final_recommendations,
                             total_found |-> Len(semantic_results)])]

\* A handler that reports the number of candidates left after filtering.
_handle_recommendation_request_CountsFiltered(m) ==
    LET top_k == m.content.top_k
        semantic_results == _perform_semantic_search(top_k * 2)
        filtered_results == _apply_filters(semantic_results, m.content.filters)
        popularity_scores == _get_popularity_scores(filtered_results)
        final_recommendations ==
            _synthesize_recommendations(filtered_results, popularity_scores,
                                        top_k)
    IN  IF ~IsDict(m.content.filters)
        THEN [raised |-> TRUE, cause |-> FiltersFault]
        ELSE [raised |-> FALSE,
              message |-> Response(m, "recommendation_result",
                            [recommendations |-> final_recommendations,
                             total_found |-> Len(filtered_results)])]

\* SuggestionAgent._handle_recommendation_request; raised says whether an
\* exception left the handler.
_handle_recommendation_request(m) ==
    LET top_k == m.content.top_k
        semantic_results == _perform_semantic_search(top_k * 2)
        filtered_results == _apply_filters(semantic_results, m.content.filters)
        popularity_scores == _get_popularity_scores(filtered_results)
        final_recommendations ==
            _synthesize_recommendations(filtered_results, popularity_scores,
                                        top_k)
    IN  IF ~IsDict(m.content.filters)
        THEN [raised |-> TRUE, cause |-> FiltersFault]
        ELSE [raised |-> FALSE,
              message |-> Response(m, "recommendation_result",
                            [recommendations |-> final_recommendations,
                             total_found |-> Len(semantic_results)])]

\* SuggestionAgent._analyze_user_history: {} for an empty history, else the
\* categories read and np.mean of the ratings.
RECURSIVE SumRatings(_)
SumRatings(history) ==
    IF history = <<>> THEN 0
    ELSE Get(Head(history), "average_rating", 0) + SumRatings(Tail(history))

_analyze_user_history(user_history) ==
    IF user_history = <<>> THEN <<>>
    ELSE [preferred_categories |->
              {user_history[i].simple_categories : i \in 1..Len(user_history)},
          average_rating_preference |->
              SumRatings(user_history) \div Len(user_history)]

\* The default of min_rating, 3.0, and the two boosts, 0.2 and 0.1.
DefaultMinRating == 30
CategoryBoost == ScoreUnit \div 5
RatingBoost == ScoreUnit \div 10

\* SuggestionAgent._analyze_user_preferences / _combine_preferences;
\* query_genres is what _extract_preferences_from_query reads in the query.
_analyze_user_preferences(query_genres, user_history) ==
    LET history_prefs == _analyze_user_history(user_history)
    IN  [preferred_genres |->
             query_genres \cup Get(history_prefs, "preferred_categories", {}),
         min_rating |->
             Get(history_prefs, "average_rating_preference", DefaultMinRating)]

\* A personalized search whose rating boost needs a rating above the bar.
_perform_personalized_search_StrictRating(preferences, top_k) ==
    LET results == _perform_semantic_search(top_k)
        boost_score(result) ==
            (IF Get(result, "simple_categories", "")
                    \in Get(preferences, "preferred_genres", {})
             THEN CategoryBoost ELSE 0)
            + (IF Get(result, "average_rating", 0)
                    > Get(preferences, "min_rating", DefaultMinRating)
               THEN RatingBoost ELSE 0)
        boosted == [i \in 1..Len(results) |->
                       Put(results[i], "personalization_boost",
                           boost_score(results[i]))]
    IN  sorted(boosted, "personalization_boost")

\* SuggestionAgent._perform_personalized_search
_perform_personalized_search(preferences, top_k) ==
    LET results == _perform_semantic_search(top_k)
        boost_score(result) ==
            (IF Get(result, "simple_categories", "")
                    \in Get(preferences, "preferred_genres", {})
             THEN CategoryBoost ELSE 0)
            + (IF Get(result, "average_rating", 0)
                    >= Get(preferences, "min_rating", DefaultMinRating)
               THEN RatingBoost ELSE 0)
        boosted == [i \in 1..Len(results) |->
                       Put(results[i], "personalization_boost",
                           boost_score(results[i]))]
    IN  sorted(boosted, "personalization_boost")

\* SuggestionAgent._apply_personalized_filters
_apply_personalized_filters(results, user_preferences) ==
    RatingFilter(results, Get(user_preferences, "min_rating", DefaultMinRating))

\* SuggestionAgent._score_personalized_recommendations
_score_personalized_recommendations(results, user_preferences, top_k) ==
    LET unique_results == Unique(results, {})
        scored == [i \in 1..Len(unique_results) |->
                      Put(unique_results[i], "final_score",
                          Get(unique_results[i], "popularity_score", 0)
                          + Get(unique_results[i], "personalization_boost", 0))]
    IN  Slice(sorted(scored, "final_score"), top_k)

\* SuggestionAgent._handle_personalized_recommendations
_handle_personalized_recommendations(m) ==
    LET top_k == m.content.top_k
        preference_analysis ==
            _analyze_user_preferences(m.content.query_genres,
                                      m.content.user_history)
        semantic_results ==
            _perform_personalized_search(preference_analysis, top_k * 2)
        personalized_results ==
            _apply_personalized_filters(semantic_results,
                                        m.content.user_preferences)
        final_recommendations ==
            _score_personalized_recommendations(
                personalized_results, m.content.user_preferences, top_k)
    IN  [raised |-> FALSE,
         message |-> Response(m, "personalized_recommendation_result",
                        [recommendations |-> final_recommendations,
                         preference_analysis |-> preference_analysis])]

\* SuggestionAgent.process_message: dispatch on the kind; an exception of a
\* handler becomes an error response; an unknown kind returns None. (The
\* kinds semantic_search and analyze_user_preferences have handlers of their
\* own and are not among the requests drawn below.)
SuggestionAgent_process_message(m) ==
    LET outcome == IF m.message_type = "get_recommendations"
                   THEN _handle_recommendation_request(m)
                   ELSE IF m.message_type = "get_personalized_recommendations"
                   THEN _handle_personalized_recommendations(m)
                   ELSE [raised |-> FALSE, message |-> None]
    IN  IF outcome.raised
        THEN error_response("sug", m, ResponseId, outcome.cause)
        ELSE outcome.message

\* The states of the vector store: never set, set and failing in
\* similarity_search, or set and ranking up to MaxDocs documents.
RECURSIVE SeqsUpTo(_, _)
SeqsUpTo(S, n) ==
    IF n = 0 THEN {<<>>}
    ELSE LET shorter == SeqsUpTo(S, n - 1)
         IN  shorter \cup {Append(q, x) : q \in shorter, x \in S}

VectorDbs ==
    {NoVectorDb, [status |-> "raises", docs |-> <<>>]}
        \cup {[status |-> "ok", docs |-> docs] : docs \in SeqsUpTo(DocIsbns, MaxDocs)}

\* content["filters"] of a get_recommendations request: a dict, or the JSON
\* null a caller put there.
FilterDicts ==
    [category : {"", "All", "Fiction"}, min_rating : {0, 40},
     emotion_tone : {"All", "Happy", "Sad", "Calm"}]

NoneFilters == [type |-> "NoneType"]

\* The requests handed to the suggestion agent. top_k is a count >= 0.
Requests ==
    {[AgentMessage(RequestId, agent_id("sug"), agent_id("sug"),
                   "get_recommendations", 1)
         EXCEPT !.content = [filters |-> f, top_k |-> k]] :
        f \in FilterDicts \cup {NoneFilters}, k \in 0..MaxTopK}
    \cup
    {[AgentMessage(RequestId, agent_id("sug"), agent_id("sug"),
                   "get_personalized_recommendations", 1)
         EXCEPT !.content = [query_genres |-> g, user_history |-> h,
                             user_preferences |-> u, top_k |-> k]] :
        g \in {{}, {"Fiction"}},
        h \in {<<>>, <<[simple_categories |-> "Nonfiction",
                        average_rating |-> 45]>>},
        u \in {<<>>, [min_rating |-> 40]},
        k \in 0..MaxTopK}
    \cup
    {AgentMessage(RequestId, agent_id("sug"), agent_id("sug"),
                  "unknown_kind", 1)}

\* The suggestion agent with its data sources and agent references set (or
\* not), and a request built for it.
InitPipe ==
    /\ InitAgents
    /\ InitScores
    /\ vector_db \in VectorDbs
    /\ popularity_agent \in BOOLEAN
    /\ request \in Requests
    /\ reply = NoReply

\* response = self.suggestion_agent.process_message(message)
suggestion_process_message ==
    /\ reply' = SuggestionAgent_process_message(request)
    /\ UNCHANGED <<vector_db, popularity_agent, request, books, scores>>
    /\ UNCHANGED <<agents, message_history, message_queue, is_active, next_uuid,
                   in_flight, response, processed, received, dropped, last_op,
                   registered_last, workers>>

NextPipe == suggestion_process_message

SpecPipe == InitPipe /\ [][NextPipe]_vars

\* ----------------------------------------------- claims: the pipeline
\* The reply is the result of the general or of the personalized pipeline.
GeneralResult == reply.message_type = "recommendation_result"
PersonalizedResult == reply.message_type = "personalized_recommendation_result"
IsResult == GeneralResult \/ PersonalizedResult

\* What the Retrieve stage returned for the request, in Retrieve order, and
\* the list the reply carries.
Retrieved == _perform_semantic_search(request.content.top_k * 2)
Recommended == reply.content.recommendations

\* C11: the recommendation list carries every isbn13 at most once, and the
\* record kept for an isbn is the one the Retrieve stage returned first for
\* it (the lowest retrieval rank among the retrieved records of that isbn),
\* whatever order the emotion sort or the boost sort put the records in.
C11_DedupFirstRetrieved ==
    IsResult =>
        /\ \A i, j \in 1..Len(Recommended) :
              i # j => Recommended[i].isbn13 # Recommended[j].isbn13
        /\ \A i \in 1..Len(Recommended) :
              \A j \in 1..Len(Retrieved) :
                  Retrieved[j].isbn13 = Recommended[i].isbn13
                      => Recommended[i].similarity_rank
                             <= Retrieved[j].similarity_rank

\* C11 witness: the Retrieve stage returned one isbn twice, a later sort put
\* the records in another order than Retrieve did, and the list carries the
\* repeated isbn.
C11_Witness ==
    /\ IsResult
    /\ Len(Recommended) = 2
    /\ Recommended[1].similarity_rank > Recommended[2].similarity_rank
    /\ \E j, k \in 1..Len(Retrieved) :
          /\ j < k
          /\ Retrieved[j].isbn13 = Retrieved[k].isbn13
          /\ Retrieved[j].isbn13 = Recommended[2].isbn13

\* The score the last sort of a pipeline ranks by: popularity_score in the
\* general pipeline, final_score in the personalized one.
FinalScoreOf(r) == IF GeneralResult THEN r.popularity_score ELSE r.final_score

\* C12: the recommendation list is in descending order of final score, and
\* two records with the same final score stand in ascending retrieval rank,
\* also after an emotion sort or a boost sort.
C12_ScoreThenRetrievalRank ==
    IsResult =>
        \A i, j \in 1..Len(Recommended) :
            i < j =>
                /\ FinalScoreOf(Recommended[i]) >= FinalScoreOf(Recommended[j])
                /\ FinalScoreOf(Recommended[i]) = FinalScoreOf(Recommended[j])
                      => Recommended[i].similarity_rank
                             < Recommended[j].similarity_rank

\* The candidates the ranking function of the pipeline is handed: the
\* retrieved records after the filter stage.
Filtered ==
    IF GeneralResult
    THEN _apply_filters(Retrieved, request.content.filters)
    ELSE _apply_personalized_filters(
             _perform_personalized_search(
                 _analyze_user_preferences(request.content.query_genres,
                                           request.content.user_history),
                 request.content.top_k * 2),
             request.content.user_preferences)

\* The number of candidates left after deduplication: the distinct truthy
\* isbn13 values among the filtered candidates.
CountAfterDedup ==
    Cardinality({Filtered[i].isbn13 : i \in 1..Len(Filtered)} \ {0})

\* C13: the recommendation list has min(top_k, number of candidates left
\* after deduplication) entries.
C13_LengthIsMinTopK ==
    IsResult =>
        Len(Recommended) = Min(request.content.top_k, CountAfterDedup)

\* C13 witness: three candidates with three isbns passed the filter stage
\* and top_k = 2 cut the list down to two.
C13_Witness ==
    /\ IsResult
    /\ Len(Filtered) = 3
    /\ CountAfterDedup = 3
    /\ request.content.top_k = 2
    /\ Len(Recommended) = 2

\* The request is a get_recommendations request whose filters are a dict,
\* and process_message has returned for it.
AnsweredGeneralRequest ==
    /\ request.message_type = "get_recommendations"
    /\ IsDict(request.content.filters)
    /\ reply # NoReply

\* The vector store is not set, or similarity_search raises, or it returns
\* no document.
RetrieverGivesNothing ==
    \/ vector_db.status = "unset"
    \/ vector_db.status = "raises"
    \/ similarity_search(request.content.top_k * 2) = <<>>

\* C14: when the vector store is unavailable, fails or returns nothing, a
\* get_recommendations request is answered by a recommendation_result with
\* an empty recommendation list and total_found = 0, not by an error
\* response.
C14_EmptyRetrievalIsNormalResult ==
    (AnsweredGeneralRequest /\ RetrieverGivesNothing) =>
        /\ reply.message_type = "recommendation_result"
        /\ reply.content.recommendations = <<>>
        /\ reply.content.total_found = 0
        /\ reply.receiver_id = request.sender_id

\* C14 witness: similarity_search raised while a request with filters and
\* top_k = 2 was handled, and the request was answered.
C14_Witness ==
    /\ AnsweredGeneralRequest
    /\ vector_db.status = "raises"
    /\ request.content.top_k = 2
    /\ request.content.filters.min_rating = 40
    /\ request.content.filters.emotion_tone = "Sad"
    /\ reply.content.total_found = 0

\* The request carries a min_rating filter and no retrieved candidate
\* reaches that rating.
RatingFilterRemovesAll ==
    /\ request.content.filters.min_rating # 0
    /\ Retrieved # <<>>
    /\ \A i \in 1..Len(Retrieved) :
          Retrieved[i].average_rating < request.content.filters.min_rating

\* C16: when the min_rating filter removes every candidate, the request is
\* answered by a recommendation_result with an empty recommendation list
\* whose total_found is the number of candidates the Retrieve stage returned.
C16_AllFilteredIsNormalResult ==
    (AnsweredGeneralRequest /\ RatingFilterRemovesAll) =>
        /\ reply.message_type = "recommendation_result"
        /\ reply.content.recommendations = <<>>
        /\ reply.content.total_found = Len(Retrieved)

\* C16 witness: three candidates were retrieved, none rated 4.0 or more, and
\* the request asked for min_rating = 4.0.
C16_Witness ==
    /\ AnsweredGeneralRequest
    /\ RatingFilterRemovesAll
    /\ Len(Retrieved) = 3
    /\ reply.content.total_found = 3
    /\ reply.content.recommendations = <<>>

\* The category values and minimum ratings the two filters are compared on.
FilterCategories == {"Fiction", "Nonfiction", "Children's Fiction"}
FilterRatings == {30, 40, 45, 50}

\* C17: on the candidates of every request, for every category and every
\* minimum rating, the category filter followed by the rating filter keeps
\* the same candidates as the rating filter followed by the category filter,
\* and the filter stage of the request keeps exactly those.
C17_FiltersCommute ==
    /\ AnsweredGeneralRequest =>
          \A c \in FilterCategories, r \in FilterRatings :
              Elems(RatingFilter(CategoryFilter(Retrieved, c), r))
                  = Elems(CategoryFilter(RatingFilter(Retrieved, r), c))
    /\ (/\ AnsweredGeneralRequest
        /\ request.content.filters.category \in FilterCategories
        /\ request.content.filters.min_rating # 0) =>
          {[isbn13 |-> Filtered[i].isbn13,
            similarity_rank |-> Filtered[i].similarity_rank] :
               i \in 1..Len(Filtered)}
            = {[isbn13 |-> x.isbn13, similarity_rank |-> x.similarity_rank] :
                 x \in Elems(CategoryFilter(
                           RatingFilter(Retrieved,
                                        request.content.filters.min_rating),
                           request.content.filters.category))}

\* C17 witness: a request with category Fiction and min_rating 4.0 was
\* answered; of three candidates the category filter alone keeps one, the
\* rating filter alone keeps two, and one passes both.
C17_Witness ==
    /\ AnsweredGeneralRequest
    /\ request.content.filters.category = "Fiction"
    /\ request.content.filters.min_rating = 40
    /\ Len(Retrieved) = 3
    /\ Len(CategoryFilter(Retrieved, "Fiction")) = 1
    /\ Len(RatingFilter(Retrieved, 40)) = 2
    /\ Len(reply.content.recommendations) = 1

\* The request asks for an emotion tone, so the emotion step runs.
EmotionStepRan ==
    /\ AnsweredGeneralRequest
    /\ request.content.filters.emotion_tone # ""
    /\ request.content.filters.emotion_tone # "All"

\* What the emotion step was handed: the candidates after the category and
\* the rating filter.
EmotionStepInput ==
    _apply_filters(Retrieved,
                   [request.content.filters EXCEPT !.emotion_tone = "All"])

\* A record without the emotion_score the emotion step writes into it.
WithoutEmotionScore(r) == [k \in DOMAIN r \ {"emotion_score"} |-> r[k]]

\* The list is in descending order of the field.
DescendingBy(seq, field) ==
    \A i, j \in 1..Len(seq) : i < j => seq[i][field] >= seq[j][field]

\* C18: the emotion step returns the candidates it was handed, each once
\* and none else, and in descending order of the emotion score that matches
\* the tone (joy for Happy, sadness for Sad).
C18_EmotionStepPermutes ==
    EmotionStepRan =>
        /\ Len(Filtered) = Len(EmotionStepInput)
        /\ \A i \in 1..Len(EmotionStepInput) :
              \E j \in 1..Len(Filtered) :
                  WithoutEmotionScore(Filtered[j]) = EmotionStepInput[i]
        /\ \A i, j \in 1..Len(Filtered) :
              i # j => Filtered[i].similarity_rank # Filtered[j].similarity_rank
        /\ request.content.filters.emotion_tone = "Happy"
              => DescendingBy(Filtered, "joy")
        /\ request.content.filters.emotion_tone = "Sad"
              => DescendingBy(Filtered, "sadness")

\* C18 witness: the emotion step for the tone Sad was handed three
\* candidates and moved the one retrieved last to the front.
C18_Witness ==
    /\ EmotionStepRan
    /\ request.content.filters.emotion_tone = "Sad"
    /\ Len(EmotionStepInput) = 3
    /\ Filtered[1].similarity_rank = 3
    /\ Filtered[1].sadness > Filtered[2].sadness

\* C30: no record whose isbn13 is empty (falsy) is in the recommendation
\* list of either pipeline, also when it is the only candidate.
C30_FalsyIsbnDropped ==
    IsResult => \A i \in 1..Len(Recommended) : Recommended[i].isbn13 # 0

\* C30 witness: the only candidate retrieved and passed by the filters is the
\* record with the falsy isbn13, and the list returned is empty.
C30_Witness ==
    /\ IsResult
    /\ Len(Retrieved) = 1
    /\ Len(Filtered) = 1
    /\ Filtered[1].isbn13 = 0
    /\ request.content.top_k = 2
    /\ Recommended = <<>>

\* The categories a personalized request prefers (those read in the query
\* and those of the books in the history) and the minimum rating of its
\* profile (the mean rating of the history, 3.0 without one).
PreferredCategories ==
    request.content.query_genres
        \cup {request.content.user_history[i].simple_categories :
                 i \in 1..Len(request.content.user_history)}

ProfileMinRating ==
    IF request.content.user_history = <<>> THEN 30
    ELSE SumRatings(request.content.user_history)
             \div Len(request.content.user_history)

\* The candidates of a personalized request after the boost step.
Boosted ==
    _perform_personalized_search(
        _analyze_user_preferences(request.content.query_genres,
                                  request.content.user_history),
        request.content.top_k * 2)

\* 0.2 for a preferred category plus 0.1 for a rating at or above the bar.
ExpectedBoost(r) ==
    (IF r.simple_categories \in PreferredCategories
     THEN (2 * ScoreUnit) \div 10 ELSE 0)
    + (IF r.average_rating >= ProfileMinRating THEN ScoreUnit \div 10 ELSE 0)

Overlay(objs, out) ==
    [i \in 1..Len(objs) |->
        IF \E j \in 1..Len(out) :
               out[j].similarity_rank = objs[i].similarity_rank
        THEN out[CHOOSE j \in 1..Len(out) :
                     out[j].similarity_rank = objs[i].similarity_rank]
        ELSE objs[i]]

\* unique_results after the loop that assigns the score, before the slice.
Ranked ==
    IF GeneralResult
    THEN _synthesize_recommendations(Filtered, _get_popularity_scores(Filtered),
                                     Len(Filtered))
    ELSE _score_personalized_recommendations(
             Filtered, request.content.user_preferences, Len(Filtered))

\* The dict objects created by the retrieval of the request, as they are
\* when the handler returns.
RecordsAfterRequest ==
    LET searched == IF GeneralResult THEN Retrieved
                    ELSE Overlay(Retrieved, Boosted)
    IN  Overlay(Overlay(searched, Filtered), Ranked)

DerivedFields ==
    {"popularity_score", "emotion_score", "personalization_boost",
     "final_score"}

\* A row of the catalog as the dict to_dict() makes of it.
CatalogFields(r) == [k \in DOMAIN r \ {"similarity_rank"} |-> r[k]]

RequestIds == 1..(MaxMsgs + MaxAgentMsgs + MaxConcMsgs)

\* What a drain of agent o returns when the handler of the message it
\* answers raises: one error_response, addressed to the sender of that
\* message, naming its id and a cause; the drain itself does not fail, it
\* removes the messages it handled as any other drain does.
ErrorAnswer(o) ==
    LET last == processed'[o][Len(processed'[o])]
    IN  response' # None =>
            /\ Len(processed'[o]) > Len(processed[o])
            /\ Responds(o, last)
            /\ response'.message_type = "error_response"
            /\ response'.content.original_message_id = last.message_id
            /\ response'.content.error # ""
            /\ response'.receiver_id = last.sender_id
            /\ response'.sender_id = agent_id(o)
            /\ response'.message_id \notin RequestIds
            /\ message_queue'[o] =
                   Rest(message_queue[o],
                        Len(processed'[o]) - Len(processed[o]))

\* C15: an exception raised while process_message handles a message is
\* turned into exactly one error_response that carries the id of that
\* message and a cause text; the exception does not reach the caller, and a
\* drain that meets the message returns that error response.
C15_HandlerFaultBecomesErrorResponse ==
    [][last_op' = "process_queue" =>
          \A o \in Instances : process_queue(o, TRUE) => ErrorAnswer(o)]_vars

\* C15 witness: a drain of the suggestion agent skipped a message of a kind
\* it does not handle, the handler of the next message raised, and the drain
\* returned the error response naming that second message.
C15_Witness ==
    /\ last_op = "process_queue"
    /\ response.message_type = "error_response"
    /\ Len(processed["sug"]) = 2
    /\ ~Responds("sug", processed["sug"][1])
    /\ response.content.original_message_id = processed["sug"][2].message_id
    /\ message_queue["sug"] # <<>>

\* ------------------------------------------ claims: draining a mailbox
\* The message the process_queue call on o that led to the next state handed
\* to process_message last.
LastHandled(o) == processed'[o][Len(processed'[o])]

\* C27: the response a process_queue call returns is addressed to the sender
\* of the request it answers and names the answering agent as its sender; an
\* error response has priority 3, any other response the priority of the
\* request.
C27_ResponseAddressAndPriority ==
    [][(last_op' = "process_queue" /\ response' # None) =>
          \A o \in Instances :
             processed'[o] # processed[o] =>
                /\ response'.receiver_id = LastHandled(o).sender_id
                /\ response'.sender_id = agent_id(o)
                /\ IF response'.message_type = "error_response"
                   THEN response'.priority = 3
                   ELSE response'.priority = LastHandled(o).priority]_vars

\* C27 witness: the popularity agent has answered, with a result of priority
\* 2, a request of priority 2 that came from the suggestion agent.
C27_Witness ==
    /\ last_op = "process_queue"
    /\ response.message_type = "result"
    /\ response.priority = 2
    /\ response.sender_id = "popularity_001"
    /\ response.receiver_id = "suggestion_001"
    /\ processed["pop"] # <<>>
    /\ processed["pop"][Len(processed["pop"])].priority = 2

\* C28: every message of a kind the agent does not dispatch on that a
\* process_queue call meets at the head of the mailbox is handed to
\* process_message and leaves the mailbox; the same call goes on to the
\* message queued behind it; the call returns nothing if the mailbox held
\* only such messages, and what it returns answers a message of a kind the
\* agent dispatches on.  A message that was handled is in no mailbox and
\* not in flight.
C28_UnhandledKindSkipped ==
    /\ [][last_op' = "process_queue" =>
            \A o \in Instances :
               (is_active[o] /\ processed'[o] # processed[o]) =>
                  LET q == message_queue[o]
                      base == Len(processed[o])
                  IN  \A i \in 1..Len(q) :
                         (\A j \in 1..i : ~Responds(o, q[j])) =>
                            /\ Len(processed'[o]) >= base + i
                            /\ processed'[o][base + i] = q[i]
                            /\ q[i] \notin Elems(message_queue'[o])
                            /\ q[i] \notin in_flight'
                            /\ i < Len(q) =>
                                  /\ Len(processed'[o]) >= base + i + 1
                                  /\ processed'[o][base + i + 1] = q[i + 1]
                            /\ i = Len(q) => response' = None
                            /\ response' # None =>
                                  /\ Responds(o, LastHandled(o))
                                  /\ response'.receiver_id
                                         = LastHandled(o).sender_id]_vars
    /\ [](\A o, x \in Instances :
             Elems(processed[o]) \cap Elems(message_queue[x]) = {})

\* C28 witness: one call has removed a message of a kind the agent does not
\* dispatch on and the message behind it, which it answered; a third message
\* is still queued.
C28_Witness ==
    /\ last_op = "process_queue"
    /\ response # None
    /\ \E o \in {"sug", "pop"} :
          /\ Len(processed[o]) = 2
          /\ ~Responds(o, processed[o][1])
          /\ Responds(o, processed[o][2])
          /\ Len(message_queue[o]) = 1

\* C29: a process_queue call hands to process_message at most as many
\* messages as were queued when it started, all of them taken from the
\* mailbox, and takes at least one from a non-empty mailbox of an active
\* agent; when an active agent receives nothing more and process_queue is
\* called again and again, its mailbox is eventually empty.
C29_DrainTerminatesAndEmpties ==
    /\ [][last_op' = "process_queue" =>
            \A o \in Instances :
               LET n == Len(processed'[o]) - Len(processed[o])
               IN  /\ 0 <= n
                   /\ n <= Len(message_queue[o])
                   /\ Len(message_queue'[o]) = Len(message_queue[o]) - n
                   /\ (/\ is_active[o]
                       /\ message_queue[o] # <<>>
                       /\ \E raises \in BOOLEAN : process_queue(o, raises))
                      => n >= 1]_vars
    /\ \A o \in {"sug", "pop"} :
          [](is_active[o] => <>(message_queue[o] = <<>>))

\* C29 witness: three messages of a kind the agent dispatches on were queued
\* and the third call has emptied the mailbox.
C29_Witness ==
    /\ last_op = "process_queue"
    /\ response # None
    /\ \E o \in {"sug", "pop"} :
          /\ is_active[o]
          /\ message_queue[o] = <<>>
          /\ Len(processed[o]) = 3
          /\ \A i \in 1..3 : Responds(o, processed[o][i])

\* ------------------------------------------------- the scoring functions
\* The largest ratings_count scored is 10^MaxExp - 1.
MaxExp == 6

\* PopularityAnalyzerAgent.popularity_weights, in hundredths.
popularity_weights ==
    [average_rating |-> 30, ratings_count |-> 25, recent_trend |-> 20,
     category_popularity |-> 15, author_popularity |-> 10]

\* PopularityAnalyzerAgent._get_category_popularity_score, in tenths.
_get_category_popularity_score(category) ==
    Get(("Fiction" :> 8) @@ ("Nonfiction" :> 7) @@ ("Children's Fiction" :> 6)
            @@ ("Children's Nonfiction" :> 5) @@ ("Other" :> 3),
        category, 3)

\* PopularityAnalyzerAgent._calculate_popularity_score
_calculate_popularity_score(book) ==
    LET avg_rating == Get(book, "average_rating", 0)
        ratings_count == Get(book, "ratings_count", 0)
        rating_part ==
            IF avg_rating > 0
            THEN (popularity_weights.average_rating
                    * ((avg_rating * ScoreUnit) \div MaxRating)) \div 100
            ELSE 0
        normalized_count ==
            Min((Log10(ratings_count + 1) * ScoreUnit) \div 5, ScoreUnit)
        count_part ==
            IF ratings_count > 0
            THEN (popularity_weights.ratings_count * normalized_count) \div 100
            ELSE 0
        category_part ==
            (popularity_weights.category_popularity
               * ((_get_category_popularity_score(
                       Get(book, "simple_categories", "Other")) * ScoreUnit)
                    \div 10)) \div 100
    IN  Min(rating_part + count_part + category_part, ScoreUnit)

\* The tier values 0.8, 0.6 and 0.3.
TrendHigh == (ScoreUnit * 8) \div 10
TrendMid == (ScoreUnit * 6) \div 10
TrendLow == (ScoreUnit * 3) \div 10

\* A trend score that takes "moderate count" by the word: a very large
\* count is no longer trending.
_calculate_trend_score_ModerateCount(book) ==
    LET ratings_count == Get(book, "ratings_count", 0)
        avg_rating == Get(book, "average_rating", 0)
    IN  IF ratings_count > 100 /\ ratings_count < 100000 /\ avg_rating > 40
        THEN TrendHigh
        ELSE IF ratings_count > 50 /\ avg_rating > 35 THEN TrendMid
        ELSE TrendLow

\* PopularityAnalyzerAgent._calculate_trend_score
_calculate_trend_score(book) ==
    LET ratings_count == Get(book, "ratings_count", 0)
        avg_rating == Get(book, "average_rating", 0)
    IN  IF ratings_count > 100 /\ avg_rating > 40 THEN TrendHigh
        ELSE IF ratings_count > 50 /\ avg_rating > 35 THEN TrendMid
        ELSE TrendLow

\* The records scored: ratings from 0.0 to 5.0 in steps of half a star,
\* counts 10^k - 1, and a category.
ScoredRatings == {5 * i : i \in 0..(MaxRating \div 5)}
ScoredCounts == {10 ^ k - 1 : k \in 0..MaxExp}
ScoredCategories == {"Fiction", "Poetry"}

ScoredBooks ==
    [average_rating : ScoredRatings, ratings_count : ScoredCounts,
     simple_categories : ScoredCategories]

\* Two records of one category are handed to the scoring functions.
InitScore ==
    /\ InitAgents
    /\ InitPipeline
    /\ books \in {<<a, b>> : a \in ScoredBooks, b \in ScoredBooks}
    /\ books[1].simple_categories = books[2].simple_categories
    /\ scores = NoScores

\* The three scoring functions, each applied to both records.
calculate_popularity_score ==
    /\ scores' = [scores EXCEPT !.popularity =
                     <<_calculate_popularity_score(books[1]),
                       _calculate_popularity_score(books[2])>>]
    /\ UNCHANGED <<vector_db, popularity_agent, request, reply, books>>
    /\ UNCHANGED <<agents, message_history, message_queue, is_active, next_uuid,
                   in_flight, response, processed, received, dropped, last_op,
                   registered_last, workers>>

calculate_simple_popularity_score ==
    /\ scores' = [scores EXCEPT !.simple =
                     <<_calculate_simple_popularity_score(books[1]),
                       _calculate_simple_popularity_score(books[2])>>]
    /\ UNCHANGED <<vector_db, popularity_agent, request, reply, books>>
    /\ UNCHANGED <<agents, message_history, message_queue, is_active, next_uuid,
                   in_flight, response, processed, received, dropped, last_op,
                   registered_last, workers>>

calculate_trend_score ==
    /\ scores' = [scores EXCEPT !.trend =
                     <<_calculate_trend_score(books[1]),
                       _calculate_trend_score(books[2])>>]
    /\ UNCHANGED <<vector_db, popularity_agent, request, reply, books>>
    /\ UNCHANGED <<agents, message_history, message_queue, is_active, next_uuid,
                   in_flight, response, processed, received, dropped, last_op,
                   registered_last, workers>>

NextScore ==
    \/ calculate_popularity_score
    \/ calculate_simple_popularity_score
    \/ calculate_trend_score

SpecScore == InitScore /\ [][NextScore]_vars

\* -------------------------------------------------- claims: the scores
\* The second record has at least the rating and at least the count of the
\* first (the category is the same).
Dominates == /\ books[2].average_rating >= books[1].average_rating
             /\ books[2].ratings_count >= books[1].ratings_count

\* C19: for ratings in [0, 5] and counts >= 0 the popularity score of the
\* popularity agent and the simple popularity score of the suggestion agent
\* lie in [0, 1], and a record with a higher rating or a higher count (the
\* other features equal) never scores lower.
C19_PopularityInRangeAndMonotone ==
    /\ \A kind \in {"popularity", "simple"} :
          scores[kind] # <<>> =>
              /\ \A i \in 1..2 : scores[kind][i] >= 0
                                    /\ scores[kind][i] <= ScoreUnit
              /\ Dominates => scores[kind][2] >= scores[kind][1]

\* C19 witness: both popularity scores were computed for two records where
\* the second has the higher rating and a count beyond the cap of the count
\* share, and the second scores higher and reaches 1.0 in the simple score.
C19_Witness ==
    /\ scores.popularity # <<>>
    /\ scores.simple # <<>>
    /\ books[2].average_rating = MaxRating
    /\ books[1].average_rating = 0
    /\ books[2].ratings_count > 99999
    /\ books[1].ratings_count = 0
    /\ scores.simple[2] = ScoreUnit
    /\ scores.popularity[2] > scores.popularity[1]

\* C20: a record with at least the ratings_count and at least the
\* average_rating of another has at least its trend score, and every trend
\* score is 0.8, 0.6 or 0.3.
C20_TrendMonotoneTiers ==
    scores.trend # <<>> =>
        /\ \A i \in 1..2 : scores.trend[i] \in {TrendHigh, TrendMid, TrendLow}
        /\ Dominates => scores.trend[2] >= scores.trend[1]

\* C20 witness: the trend scores of a record of the lowest tier and of one
\* that has more ratings and a higher rating and sits in the highest tier.
C20_Witness ==
    /\ scores.trend # <<>>
    /\ Dominates
    /\ scores.trend[1] = TrendLow
    /\ scores.trend[2] = TrendHigh
    /\ books[1].ratings_count > 50

\* popularity_analysis: overall_score = (popularity_score + trend_score) / 2,
\* the baseline the popularity and trend algorithms give a record.
BaselineScore(r) ==
    (_calculate_popularity_score(r) + _calculate_trend_score(r)) \div 2

\* C23: every record in the list of a personalized request has as
\* final_score its baseline score from the popularity and trend algorithms
\* plus its personalization_boost.
C23_FinalScoreIsBaselinePlusBoost ==
    PersonalizedResult =>
        \A i \in 1..Len(Recommended) :
            Recommended[i].final_score
                = BaselineScore(Recommended[i])
                    + Recommended[i].personalization_boost

\* ---------------------------------------------- the popularity analyzer
\* The response a handler of the popularity agent returns:
\* self.send_message(message.sender_id, kind, response_content,
\* priority=message.priority)
PopularityResponse(m, kind, response_content) ==
    [AgentMessage(ResponseId, agent_id("pop"), m.sender_id, kind, m.priority)
        EXCEPT !.content = response_content]

\* The cause the handlers give for a books_data that makes an empty frame.
NoBooksFault == "No books data provided"

\* PopularityAnalyzerAgent._handle_popularity_analysis: one result per book
\* of books_data, whatever its length.
_handle_popularity_analysis(m) ==
    LET books_data == m.content.books_data
        results ==
            [i \in 1..Len(books_data) |->
                LET popularity_score == _calculate_popularity_score(books_data[i])
                    trend_score == _calculate_trend_score(books_data[i])
                IN  [isbn13 |-> Get(books_data[i], "isbn13", 0),
                     title |-> Get(books_data[i], "title", ""),
                     popularity_score |-> popularity_score,
                     trend_score |-> trend_score,
                     overall_score |-> (popularity_score + trend_score) \div 2]]
    IN  PopularityResponse(m, "popularity_analysis_result",
            [books_analyzed |-> Len(results), results |-> results])

RECURSIVE SumCounts(_)
SumCounts(rows) ==
    IF rows = <<>> THEN 0
    ELSE Get(Head(rows), "ratings_count", 0) + SumCounts(Tail(rows))

\* books_df.groupby(key).agg({"average_rating": "mean", "ratings_count":
\* "sum", "isbn13": "count"}).round(2): the mean is in hundredths, rounded
\* to the nearest (no mean of up to three ratings given in tenths lies
\* half-way between two hundredths).
GroupStats(rows, key) ==
    [g \in {rows[i][key] : i \in 1..Len(rows)} |->
        LET members == SelectSeq(rows, LAMBDA row : row[key] = g)
            n == Len(members)
        IN  [average_rating |-> (SumRatings(members) * 20 + n) \div (2 * n),
             ratings_count |-> SumCounts(members),
             isbn13 |-> n]]

\* PopularityAnalyzerAgent._analyze_category_trends. The trend score of a
\* group is average_rating * 0.4 + log10(ratings_count + 1) * 0.6; the sum
\* of the counts of a group is no power of ten, so the score is kept as its
\* two terms: four times the mean rating (in thousandths) and the number
\* whose logarithm is taken.
_analyze_category_trends(rows) ==
    LET category_stats == GroupStats(rows, "simple_categories")
    IN  [g \in DOMAIN category_stats |->
            [average_rating |-> category_stats[g].average_rating,
             ratings_count |-> category_stats[g].ratings_count,
             isbn13 |-> category_stats[g].isbn13,
             trend_score |->
                 [rating_term |-> category_stats[g].average_rating * 4,
                  log10_of |-> category_stats[g].ratings_count + 1]]]

\* PopularityAnalyzerAgent._analyze_author_trends: the authors with more
\* than one book or a mean rating above 4.0 (head(10) keeps them all, the
\* model has fewer authors).
_analyze_author_trends(rows) ==
    LET author_stats == GroupStats(rows, "authors")
        trending == {g \in DOMAIN author_stats :
                        \/ author_stats[g].isbn13 > 1
                        \/ author_stats[g].average_rating > 400}
    IN  [g \in trending |-> author_stats[g]]

\* PopularityAnalyzerAgent._identify_trending_books: nlargest(20,
\* "trend_score") keeps the first of equal scores first (the model has
\* fewer than 20 books), then the five columns are selected.
_identify_trending_books(rows) ==
    LET scored == [i \in 1..Len(rows) |->
                      Put(rows[i], "trend_score",
                          _calculate_trend_score(rows[i]))]
        trending == sorted(scored, "trend_score")
    IN  [i \in 1..Len(trending) |->
            [isbn13 |-> trending[i].isbn13, title |-> trending[i].title,
             authors |-> trending[i].authors,
             trend_score |-> trending[i].trend_score,
             average_rating |-> trending[i].average_rating]]

\* PopularityAnalyzerAgent._handle_trend_detection: an empty frame is
\* answered with an error response.
_handle_trend_detection(m) ==
    LET rows == m.content.books_data
    IN  IF rows = <<>>
        THEN error_response("pop", m, ResponseId, NoBooksFault)
        ELSE PopularityResponse(m, "trend_analysis_result",
                 [category_trends |-> _analyze_category_trends(rows),
                  author_trends |-> _analyze_author_trends(rows),
                  trending_books |-> _identify_trending_books(rows)])

\* PopularityAnalyzerAgent._filter_books_by_criteria: a criterion that is
\* absent, 0 or "" is falsy and filters nothing.
_filter_books_by_criteria(rows, criteria) ==
    LET by_rating ==
            IF criteria.min_rating # 0
            THEN RatingFilter(rows, criteria.min_rating)
            ELSE rows
        by_count ==
            IF criteria.min_ratings_count # 0
            THEN SelectSeq(by_rating,
                     LAMBDA row : row.ratings_count >= criteria.min_ratings_count)
            ELSE by_rating
    IN  IF criteria.category # ""
        THEN SelectSeq(by_count,
                 LAMBDA row : row.simple_categories = criteria.category)
        ELSE by_count

\* PopularityAnalyzerAgent._score_books_for_popularity
_score_books_for_popularity(rows) ==
    [i \in 1..Len(rows) |->
        Put(rows[i], "popularity_score", _calculate_popularity_score(rows[i]))]

\* PopularityAnalyzerAgent._handle_popular_books_request: an empty frame is
\* answered with an error response. sort_values on the few rows of a
\* request keeps rows of equal score in their order.
_handle_popular_books_request(m) ==
    LET rows == m.content.books_data
        criteria == m.content.criteria
        scored_books ==
            sorted(_score_books_for_popularity(
                       _filter_books_by_criteria(rows, criteria)),
                   "popularity_score")
    IN  IF rows = <<>>
        THEN error_response("pop", m, ResponseId, NoBooksFault)
        ELSE PopularityResponse(m, "popular_books_result",
                 [popular_books |-> Slice(scored_books, criteria.top_n),
                  criteria_used |-> criteria,
                  total_books_analyzed |-> Len(scored_books)])

\* PopularityAnalyzerAgent.process_message: dispatch on the kind; an unknown
\* kind returns None. (score_recommendations is not among the requests of
\* the model.)
PopularityAnalyzerAgent_process_message(m) ==
    IF m.message_type = "analyze_popularity"
    THEN _handle_popularity_analysis(m)
    ELSE IF m.message_type = "detect_trends"
    THEN _handle_trend_detection(m)
    ELSE IF m.message_type = "get_popular_books"
    THEN _handle_popular_books_request(m)
    ELSE None

\* The rows a caller may put in books_data: two books of one author and
\* category, one of another.
PopBooks ==
    {[isbn13 |-> 1, title |-> "t1", authors |-> "a1",
      simple_categories |-> "Fiction", average_rating |-> 45,
      ratings_count |-> 999],
     [isbn13 |-> 2, title |-> "t2", authors |-> "a1",
      simple_categories |-> "Fiction", average_rating |-> 30,
      ratings_count |-> 9],
     [isbn13 |-> 3, title |-> "t3", authors |-> "a2",
      simple_categories |-> "Nonfiction", average_rating |-> 40,
      ratings_count |-> 99]}

\* content["criteria"] of a get_popular_books request.
CriteriaDicts ==
    [min_rating : {0, 40}, min_ratings_count : {0, 50},
     category : {"", "Fiction"}, top_n : {1, 10}]

AggregationKinds == {"analyze_popularity", "detect_trends", "get_popular_books"}

\* The requests handed to the popularity agent.
PopRequests ==
    {[AgentMessage(RequestId, agent_id("sug"), agent_id("pop"), kind, 1)
         EXCEPT !.content = [books_data |-> b, criteria |-> c]] :
        kind \in AggregationKinds, b \in SeqsUpTo(PopBooks, MaxBooks),
        c \in CriteriaDicts}
    \cup
    {AgentMessage(RequestId, agent_id("sug"), agent_id("pop"),
                  "unknown_kind", 1)}

\* The popularity agent and a request built for it.
InitPop ==
    /\ InitAgents
    /\ InitScores
    /\ vector_db = NoVectorDb
    /\ popularity_agent = FALSE
    /\ request \in PopRequests
    /\ reply = NoReply

\* response = self.popularity_agent.process_message(message)
popularity_process_message ==
    /\ reply' = PopularityAnalyzerAgent_process_message(request)
    /\ UNCHANGED <<vector_db, popularity_agent, request, books, scores>>
    /\ UNCHANGED <<agents, message_history, message_queue, is_active, next_uuid,
                   in_flight, response, processed, received, dropped, last_op,
                   registered_last, workers>>

NextPop == popularity_process_message

SpecPop == InitPop /\ [][NextPop]_vars

\* ------------------------------------- claims: the popularity analyzer
\* C21: a detect_trends, get_popular_books or analyze_popularity request
\* whose books_data is empty is answered with the normal result of its kind
\* with empty aggregates, never with an error response.
C21_EmptyInputIsNormalResult ==
    (/\ reply # NoReply
     /\ request.message_type \in AggregationKinds
     /\ request.content.books_data = <<>>)
    => /\ reply.message_type # "error_response"
       /\ \/ /\ reply.message_type = "popularity_analysis_result"
             /\ reply.content.results = <<>>
          \/ /\ reply.message_type = "trend_analysis_result"
             /\ reply.content.trending_books = <<>>
             /\ DOMAIN reply.content.category_trends = {}
          \/ /\ reply.message_type = "popular_books_result"
             /\ reply.content.popular_books = <<>>

====
